---- MODULE Spec2Model ----
(***************************************************************************)
(* A model of the STAR archive library (src/src/star.c): the in-memory     *)
(* archive (struct star_file), the heap it owns, the builder               *)
(* (star_new, star_add_file, star_file_offsets), the writer (star_write),  *)
(* the reader (star_read and its helpers), the two lookups (star_search,   *)
(* star_bsearch) and the teardown (star_free).                             *)
(*                                                                         *)
(* Conventions.  C indices are 0-based, TLA+ sequences 1-based: slot idx   *)
(* of the code is element idx + 1 of fh / fd.  A u64 is represented by the *)
(* integer that is congruent to it modulo 2^64 and lies next to zero, so   *)
(* UINT64_MAX is -1 and 0 - 1 = UINT64_MAX, as in the code's arithmetic.   *)
(* A pointer is a heap address (a positive integer) or NULL.               *)
(***************************************************************************)
EXTENDS Integers, Sequences, FiniteSets, TLC

(***************************************************************************)
(* Bounds of the model.                                                    *)
(***************************************************************************)
MaxFiles == 2
MaxSize == 2
MaxLeak == 1
MaxOverrun == 1

(***************************************************************************)
(* Program constants.                                                      *)
(***************************************************************************)
NULL == 0
UINT64_MAX == -1
MAGIC == <<83, 84, 65, 82>>
SizeofU64 == 8
SizeofPtr == 8
NFields == 3
\* sizeof(struct star_file_header): size, offset, path_len and the path pointer
SizeofFileHeader == NFields * SizeofU64 + SizeofPtr
\* sizeof(struct star_header): the magic tag and the 64-bit file count
SizeofHeader == Len(MAGIC) + SizeofU64
\* sizeof(struct star_file), padding aside: the header and the two arrays
SizeofFile == SizeofHeader + 2 * SizeofPtr

(***************************************************************************)
(* Inputs.                                                                 *)
(***************************************************************************)
\* the file names callers use: "", "a", "b", "aa"
Names == {<<>>, <<97>>, <<98>>, <<97, 97>>}
\* the names used where the order of the entries plays no part: "a", "ab"
BuildNames == {<<97>>, <<97, 98>>}
\* the bytes a source stream holds: position p holds SrcByte(p)
SrcByte(p) == 16 + p
Source(avail) == [p \in 1..avail |-> SrcByte(p)]
\* bytes found behind a buffer that is read past its end
Overruns == UNION {[1..k -> {97, 98}] : k \in 0..MaxOverrun}

(***************************************************************************)
(* Sequences of bytes.                                                     *)
(***************************************************************************)
Take(s, n) == SubSeq(s, 1, IF n < Len(s) THEN n ELSE Len(s))
Drop(s, n) == SubSeq(s, n + 1, Len(s))
Min(a, b) == IF a < b THEN a ELSE b

RECURSIVE Concat(_)
Concat(ss) == IF ss = <<>> THEN <<>> ELSE Head(ss) \o Concat(Tail(ss))

RECURSIVE u64_bytes(_, _)
\* the memory image of a u64 (little-endian host), as fwrite emits it
u64_bytes(v, width) ==
    IF width = 0 THEN <<>>
    ELSE <<v % 256>> \o u64_bytes(v \div 256, width - 1)

RECURSIVE u64_value(_)
\* the u64 that fread stores from its memory image
u64_value(bs) ==
    IF Len(bs) = 1
    THEN (IF bs[1] >= 128 THEN bs[1] - 256 ELSE bs[1])
    ELSE bs[1] + 256 * u64_value(Tail(bs))

\* the C string held in a buffer: the bytes before the first NUL; a buffer
\* without NUL is read past its end, into the bytes `over` and a NUL
HasNul(buf) == \E i \in 1..Len(buf) : buf[i] = 0
FirstNul(buf) == CHOOSE i \in 1..Len(buf) : buf[i] = 0 /\ \A j \in 1..(i - 1) : buf[j] # 0
CStr(buf, over) == IF HasNul(buf) THEN SubSeq(buf, 1, FirstNul(buf) - 1) ELSE buf \o over
strlen(buf, over) == Len(CStr(buf, over))

RECURSIVE strcmp(_, _)
\* sign of strcmp on two C strings (given without their terminator)
strcmp(l, r) ==
    IF l = <<>> /\ r = <<>> THEN 0
    ELSE IF l = <<>> THEN -1
    ELSE IF r = <<>> THEN 1
    ELSE IF Head(l) < Head(r) THEN -1
    ELSE IF Head(l) > Head(r) THEN 1
    ELSE strcmp(Tail(l), Tail(r))

RECURSIVE strncmp(_, _, _)
\* sign of strncmp on two buffers that end with a NUL, at most n bytes
strncmp(l, r, n) ==
    IF n = 0 THEN 0
    ELSE IF Head(l) < Head(r) THEN -1
    ELSE IF Head(l) > Head(r) THEN 1
    ELSE IF Head(l) = 0 THEN 0
    ELSE strncmp(Tail(l), Tail(r), n - 1)

\* star_strcmp: length first, then bytewise
star_strcmp(l, r) ==
    LET diff == Len(l) - Len(r)
    IN  IF diff = 0 THEN strcmp(l, r) ELSE diff

(***************************************************************************)
(* The heap: mem maps every live address to the bytes stored there (the    *)
(* struct and the two arrays are kept in the archive record, their blocks  *)
(* hold no bytes of interest); bad records a free of an address that is    *)
(* not live.                                                               *)
(***************************************************************************)
EmptyHeap == [mem |-> <<>>, bad |-> FALSE]

FreshPtr(h) ==
    CHOOSE p \in 1..(Cardinality(DOMAIN h.mem) + 1) :
        /\ p \notin DOMAIN h.mem
        /\ \A q \in 1..(p - 1) : q \in DOMAIN h.mem

\* malloc/calloc/strdup: ok = FALSE is an allocation that returns NULL
malloc(h, ok, bytes) ==
    IF ok
    THEN [ptr |-> FreshPtr(h), h |-> [h EXCEPT !.mem = (FreshPtr(h) :> bytes) @@ h.mem]]
    ELSE [ptr |-> NULL, h |-> h]

free(h, p) ==
    IF p = NULL THEN h
    ELSE IF p \in DOMAIN h.mem
         THEN [h EXCEPT !.mem = [q \in (DOMAIN h.mem) \ {p} |-> h.mem[q]]]
         ELSE [h EXCEPT !.bad = TRUE]

RECURSIVE free_all(_, _)
free_all(h, ps) == IF ps = <<>> THEN h ELSE free_all(free(h, Head(ps)), Tail(ps))

(***************************************************************************)
(* struct star_file.  self is the address of the struct (NULL: no archive) *)
(* fheaders / fdata are the addresses of the two arrays, fh / fd their     *)
(* elements.                                                               *)
(***************************************************************************)
ZeroHeader == [size |-> 0, offset |-> 0, path_len |-> 0, path |-> NULL]
ZeroFile ==
    [self |-> NULL, magic |-> <<0, 0, 0, 0>>, nfiles |-> 0,
     fheaders |-> NULL, fh |-> <<>>, fdata |-> NULL, fd |-> <<>>]

star_check_header(f) == IF f.self # NULL THEN f.magic = MAGIC ELSE FALSE

\* the addresses an archive owns
Owned(f) ==
    IF f.self = NULL THEN {}
    ELSE ({f.self, f.fheaders, f.fdata}
            \cup {f.fh[i].path : i \in 1..Len(f.fh)}
            \cup {f.fd[i] : i \in 1..Len(f.fd)}) \ {NULL}

(***************************************************************************)
(* star_new                                                                *)
(***************************************************************************)
star_new(h, nfiles, failAt) ==
    IF nfiles = 0 THEN [ret |-> ZeroFile, h |-> h]
    ELSE
    LET a1 == malloc(h, failAt # 1, <<>>)
        a2 == malloc(a1.h, failAt # 2, <<>>)
        a3 == malloc(a2.h, failAt # 3, <<>>)
    IN  IF a1.ptr = NULL \/ a2.ptr = NULL \/ a3.ptr = NULL
        THEN [ret |-> ZeroFile,
              h |-> free(free(free(a3.h, a3.ptr), a1.ptr), a2.ptr)]
        ELSE [ret |-> [self |-> a3.ptr, magic |-> MAGIC, nfiles |-> nfiles,
                       fheaders |-> a2.ptr, fh |-> [i \in 1..nfiles |-> ZeroHeader],
                       fdata |-> a1.ptr, fd |-> [i \in 1..nfiles |-> NULL]],
              h |-> a3.h]

(***************************************************************************)
(* star_add_file.  src is the content of the source stream (inNull: the    *)
(* stream pointer is NULL), pathNull a NULL path, failAt the allocation    *)
(* that fails (0: none), zeroNull whether malloc(0) returns NULL.          *)
(***************************************************************************)
\* fread(ptr, size, 1, in): the number of items read
fread_one(stream, size) == IF size > 0 /\ Len(stream) >= size THEN 1 ELSE 0

\* an install that appends: the entry goes to the first empty slot
install_append(f, idx, fdata, fheader) ==
    LET empty == {i \in 1..f.nfiles : f.fd[i] = NULL}
        slot == IF empty = {} THEN idx + 1
                ELSE CHOOSE i \in empty : \A j \in empty : i <= j
    IN  [f EXCEPT !.fd[slot] = fdata, !.fh[slot] = fheader]

\* self->fdata[idx] = fdata; self->fheaders[idx] = fheader;
install(f, idx, fdata, fheader) ==
    [f EXCEPT !.fd[idx + 1] = fdata, !.fh[idx + 1] = fheader]

\* star_add_file whose ko path forgets the data buffer when strdup fails
star_add_file_leak(h, f, idx, pathNull, path, size, inNull, src, failAt, zeroNull) ==
    IF f.self = NULL \/ inNull \/ pathNull \/ idx >= f.nfiles
    THEN [ret |-> FALSE, f |-> f, h |-> h]
    ELSE
    LET a1 == malloc(h, failAt # 1 /\ ~(size = 0 /\ zeroNull), Take(src, size))
        r  == fread_one(src, size)
        a2 == malloc(a1.h, failAt # 2, path \o <<0>>)
        fheader == [size |-> size, offset |-> 0,
                    path_len |-> strlen(path \o <<0>>, <<>>) + 1, path |-> a2.ptr]
    IN  IF a1.ptr = NULL THEN [ret |-> FALSE, f |-> f, h |-> h]
        ELSE IF r # 1 THEN [ret |-> FALSE, f |-> f, h |-> free(a1.h, a1.ptr)]
        ELSE IF a2.ptr = NULL THEN [ret |-> FALSE, f |-> f, h |-> a2.h]
        ELSE [ret |-> TRUE, f |-> install(f, idx, a1.ptr, fheader), h |-> a2.h]

star_add_file(h, f, idx, pathNull, path, size, inNull, src, failAt, zeroNull) ==
    IF f.self = NULL \/ inNull \/ pathNull \/ idx >= f.nfiles
    THEN [ret |-> FALSE, f |-> f, h |-> h]
    ELSE
    LET a1 == malloc(h, failAt # 1 /\ ~(size = 0 /\ zeroNull), Take(src, size))
        r  == fread_one(src, size)
        a2 == malloc(a1.h, failAt # 2, path \o <<0>>)
        fheader == [size |-> size, offset |-> 0,
                    path_len |-> strlen(path \o <<0>>, <<>>) + 1, path |-> a2.ptr]
    IN  IF a1.ptr = NULL THEN [ret |-> FALSE, f |-> f, h |-> h]
        ELSE IF r # 1 THEN [ret |-> FALSE, f |-> f, h |-> free(a1.h, a1.ptr)]
        ELSE IF a2.ptr = NULL THEN [ret |-> FALSE, f |-> f, h |-> free(a2.h, a1.ptr)]
        ELSE [ret |-> TRUE, f |-> install(f, idx, a1.ptr, fheader), h |-> a2.h]

(***************************************************************************)
(* star_file_offsets                                                       *)
(***************************************************************************)
RECURSIVE SumPathLen(_, _)
SumPathLen(fh, n) == IF n = 0 THEN 0 ELSE SumPathLen(fh, n - 1) + fh[n].path_len

RECURSIVE set_offsets(_, _, _)
\* the loop of lines 534-535, from index i (0-based) on
set_offsets(fh, i, nfiles) ==
    IF i >= nfiles THEN fh
    ELSE set_offsets([fh EXCEPT ![i + 1].offset = fh[i].offset + fh[i].size],
                     i + 1, nfiles)

\* star_file_offsets that counts the path pointers in
star_file_offsets_ptr(f) ==
    IF f.self = NULL THEN [ret |-> FALSE, f |-> f]
    ELSE
    LET offset == SizeofHeader + f.nfiles * SizeofFileHeader
                    + SumPathLen(f.fh, f.nfiles)
        fh0 == [f.fh EXCEPT ![1].offset = offset]
    IN  [ret |-> TRUE, f |-> [f EXCEPT !.fh = set_offsets(fh0, 1, f.nfiles)]]

star_file_offsets(f) ==
    IF f.self = NULL THEN [ret |-> FALSE, f |-> f]
    ELSE
    LET offset == SizeofHeader + f.nfiles * SizeofFileHeader
                    + SumPathLen(f.fh, f.nfiles) - f.nfiles * SizeofPtr
        fh0 == [f.fh EXCEPT ![1].offset = offset]
    IN  [ret |-> TRUE, f |-> [f EXCEPT !.fh = set_offsets(fh0, 1, f.nfiles)]]

(***************************************************************************)
(* star_free                                                               *)
(***************************************************************************)
star_free(h, f) ==
    IF f.self = NULL THEN h
    ELSE
    LET h1 == IF f.fheaders # NULL
              THEN free(free_all(h, [i \in 1..f.nfiles |-> f.fh[i].path]), f.fheaders)
              ELSE h
        h2 == IF f.fdata # NULL
              THEN free(free_all(h1, f.fd), f.fdata)
              ELSE h1
    IN  free(h2, f.self)

(***************************************************************************)
(* star_write.  Every fwrite of the code is one chunk; failAt is the       *)
(* fwrite that fails (0: none), over the bytes behind an unterminated path.*)
(* The result tells whether an fwrite came back short.                     *)
(***************************************************************************)
Chunk(bytes, size, nmemb) == [bytes |-> bytes, size |-> size, nmemb |-> nmemb]

\* fwrite(ptr, size, nmemb, stream): items written when the stream accepts them
fwrite(c) == IF c.size = 0 THEN 0 ELSE c.nmemb

\* lines 374-378: every slot is filled and its path_len is consistent
ValidEntry(h, f, i, over) ==
    /\ f.fd[i] # NULL
    /\ f.fh[i].path # NULL
    /\ strlen(h.mem[f.fh[i].path], over) + 1 = f.fh[i].path_len

HeaderChunk(f) == Chunk(f.magic \o u64_bytes(f.nfiles, SizeofU64), SizeofHeader, 1)

FieldsChunk(e) ==
    Chunk(u64_bytes(e.size, SizeofU64) \o u64_bytes(e.offset, SizeofU64)
            \o u64_bytes(e.path_len, SizeofU64), SizeofU64, NFields)

\* PathChunk without the terminator: path_len - 1 bytes are written
PathChunkNoNul(h, e) == Chunk(Take(h.mem[e.path], e.path_len - 1), 1, e.path_len - 1)

PathChunk(h, e) == Chunk(Take(h.mem[e.path], e.path_len), 1, e.path_len)

DataChunk(h, f, i) == Chunk(Take(h.mem[f.fd[i]], f.fh[i].size), f.fh[i].size, 1)

\* the fwrite calls of lines 381-410, in order
WriteChunks(h, f) ==
    <<HeaderChunk(f)>>
      \o Concat([i \in 1..f.nfiles |-> <<FieldsChunk(f.fh[i]), PathChunk(h, f.fh[i])>>])
      \o [i \in 1..f.nfiles |-> DataChunk(h, f, i)]

RECURSIVE emit(_, _, _, _)
\* write the chunks from the k-th on, stop at the first fwrite that comes
\* back short
emit(cs, k, failAt, out) ==
    IF k > Len(cs) THEN [ret |-> TRUE, out |-> out, short |-> FALSE]
    ELSE IF k = failAt \/ fwrite(cs[k]) # cs[k].nmemb
    THEN [ret |-> FALSE, out |-> out, short |-> TRUE]
    ELSE emit(cs, k + 1, failAt, out \o cs[k].bytes)

\* star_write that emits the header before it looks at the entries
star_write_early(h, f, outNull, failAt, over) ==
    IF \/ f.self = NULL
       \/ outNull
       \/ ~star_check_header(f)
       \/ f.fheaders = NULL
       \/ f.fdata = NULL
    THEN [ret |-> FALSE, out |-> <<>>, short |-> FALSE]
    ELSE IF \E i \in 1..f.nfiles : ~ValidEntry(h, f, i, over)
    THEN [ret |-> FALSE, out |-> HeaderChunk(f).bytes, short |-> FALSE]
    ELSE emit(WriteChunks(h, f), 1, failAt, <<>>)

star_write(h, f, outNull, failAt, over) ==
    IF \/ f.self = NULL
       \/ outNull
       \/ ~star_check_header(f)
       \/ f.fheaders = NULL
       \/ f.fdata = NULL
    THEN [ret |-> FALSE, out |-> <<>>, short |-> FALSE]
    ELSE IF \E i \in 1..f.nfiles : ~ValidEntry(h, f, i, over)
    THEN [ret |-> FALSE, out |-> <<>>, short |-> FALSE]
    ELSE emit(WriteChunks(h, f), 1, failAt, <<>>)

(***************************************************************************)
(* star_read and its helpers.  The reader state st holds the heap, the     *)
(* unread rest of the stream and the number of allocations made so far;    *)
(* failAt is the allocation of the call that fails (0: none).              *)
(***************************************************************************)
\* fread(ptr, size, nmemb, in): items read, their bytes, the rest of the stream
fread(in, size, nmemb) ==
    LET r == IF size = 0 THEN 0 ELSE Min(nmemb, Len(in) \div size)
    IN  IF r = nmemb
        THEN [r |-> r, bytes |-> Take(in, size * nmemb), rest |-> Drop(in, size * nmemb)]
        ELSE [r |-> r, bytes |-> in, rest |-> <<>>]

\* an allocation of `size` bytes inside star_read
ralloc(st, size, failAt, zeroNull) ==
    LET k == st.na + 1
        a == malloc(st.h, k # failAt /\ size >= 0 /\ ~(size = 0 /\ zeroNull), <<>>)
    IN  [ptr |-> a.ptr, st |-> [st EXCEPT !.h = a.h, !.na = k]]

store(h, p, bytes) == [h EXCEPT !.mem[p] = bytes]

star_read_header(in) ==
    LET r == fread(in, SizeofHeader, 1)
        magic == SubSeq(r.bytes, 1, Len(MAGIC))
        nfiles == u64_value(SubSeq(r.bytes, Len(MAGIC) + 1, SizeofHeader))
    IN  IF r.r # 1
        THEN [ret |-> FALSE, f |-> ZeroFile, rest |-> r.rest]
        ELSE [ret |-> magic = MAGIC,
              f |-> [ZeroFile EXCEPT !.magic = magic, !.nfiles = nfiles],
              rest |-> r.rest]

U64At(bytes, k) == u64_value(SubSeq(bytes, (k - 1) * SizeofU64 + 1, k * SizeofU64))

\* struct star_file_header tmp after the fread of line 243
tmp_fields(bytes) ==
    [size |-> U64At(bytes, 1), offset |-> U64At(bytes, 2),
     path_len |-> U64At(bytes, 3), path |-> NULL]

RECURSIVE read_fheaders_loop(_, _, _, _, _, _)
\* lines 249-270: allocate the path, read it, store the entry and go on
read_path(st, fh, ret, nfiles, failAt, zeroNull, tmp) ==
    LET a == ralloc(st, tmp.path_len, failAt, zeroNull)
        r2 == fread(a.st.in, 1, tmp.path_len)
    IN  IF a.ptr = NULL THEN [ret |-> ret, fh |-> fh, st |-> a.st]
        ELSE IF r2.r # tmp.path_len
        THEN [ret |-> ret, fh |-> fh,
              st |-> [a.st EXCEPT !.in = r2.rest, !.h = free(a.st.h, a.ptr)]]
        ELSE read_fheaders_loop(
                [a.st EXCEPT !.in = r2.rest, !.h = store(a.st.h, a.ptr, r2.bytes)],
                [fh EXCEPT ![ret + 1] = [tmp EXCEPT !.path = a.ptr]],
                ret + 1, nfiles, failAt, zeroNull)

\* the loop of lines 231-271, from entry ret (0-based) on
read_fheaders_loop(st, fh, ret, nfiles, failAt, zeroNull) ==
    IF ret >= nfiles THEN [ret |-> ret, fh |-> fh, st |-> st]
    ELSE
    LET r1 == fread(st.in, SizeofU64, NFields)
    IN  IF r1.r # NFields THEN [ret |-> ret, fh |-> fh, st |-> [st EXCEPT !.in = r1.rest]]
        ELSE read_path([st EXCEPT !.in = r1.rest], fh, ret, nfiles, failAt, zeroNull,
                       tmp_fields(r1.bytes))

\* lines 273-276: self->fheaders = fheaders; return ret
fheaders_out(f, fheaders, l) ==
    [ret |-> l.ret, f |-> [f EXCEPT !.fheaders = fheaders, !.fh = l.fh], st |-> l.st]

star_read_fheaders(st, f, failAt, zeroNull) ==
    LET a == IF f.fheaders = NULL
             THEN ralloc(st, f.nfiles, failAt, zeroNull)
             ELSE [ptr |-> f.fheaders, st |-> st]
        fh0 == IF f.fheaders = NULL THEN [i \in 1..f.nfiles |-> ZeroHeader] ELSE f.fh
    IN  IF a.ptr = NULL THEN [ret |-> 0, f |-> f, st |-> a.st]
        ELSE fheaders_out(f, a.ptr,
                          read_fheaders_loop(a.st, fh0, 0, f.nfiles, failAt, zeroNull))

RECURSIVE read_fdata_loop(_, _, _, _, _, _)
\* the loop of lines 292-307, from entry ret (0-based) on
read_fdata_loop(st, fd, ret, f, failAt, zeroNull) ==
    IF ret >= f.nfiles THEN [ret |-> ret, fd |-> fd, st |-> st]
    ELSE
    LET a == ralloc(st, f.fh[ret + 1].size, failAt, zeroNull)
        r == fread(a.st.in, f.fh[ret + 1].size, 1)
    IN  IF a.ptr = NULL THEN [ret |-> ret, fd |-> fd, st |-> a.st]
        ELSE IF r.r # 1
        THEN [ret |-> ret, fd |-> fd,
              st |-> [a.st EXCEPT !.in = r.rest, !.h = free(a.st.h, a.ptr)]]
        ELSE read_fdata_loop(
                [a.st EXCEPT !.in = r.rest, !.h = store(a.st.h, a.ptr, r.bytes)],
                [fd EXCEPT ![ret + 1] = a.ptr], ret + 1, f, failAt, zeroNull)

\* lines 309-312: self->fdata = fdata; return ret
fdata_out(f, fdata, l) ==
    [ret |-> l.ret, f |-> [f EXCEPT !.fdata = fdata, !.fd = l.fd], st |-> l.st]

star_read_fdata(st, f, failAt, zeroNull) ==
    LET a == IF f.fdata = NULL
             THEN ralloc(st, f.nfiles, failAt, zeroNull)
             ELSE [ptr |-> f.fdata, st |-> st]
        fd0 == IF f.fdata = NULL THEN [i \in 1..f.nfiles |-> NULL] ELSE f.fd
    IN  IF a.ptr = NULL THEN [ret |-> 0, f |-> f, st |-> a.st]
        ELSE fdata_out(f, a.ptr, read_fdata_loop(a.st, fd0, 0, f, failAt, zeroNull))

\* ko_fheaders that forgets the paths
ko_fheaders_leak(h, f, nfheaders) == free(free(h, f.fheaders), f.self)

\* lines 346-352: free the first nfheaders paths, the array and the struct
ko_fheaders(h, f, nfheaders) ==
    free(free(free_all(h, [i \in 1..nfheaders |-> f.fh[i].path]), f.fheaders), f.self)

\* lines 341-344, falling through to ko_fheaders
ko_fdata(h, f, nfdata, nfheaders) ==
    ko_fheaders(free(free_all(h, [i \in 1..nfdata |-> f.fd[i]]), f.fdata), f, nfheaders)

\* lines 335-338: rd is what star_read_fdata returned, nfheaders = nfiles
read_fdata_done(rd, nfheaders) ==
    IF rd.f.nfiles # rd.ret
    THEN [ret |-> ZeroFile, h |-> ko_fdata(rd.st.h, rd.f, rd.ret, nfheaders), na |-> rd.st.na]
    ELSE [ret |-> rd.f, h |-> rd.st.h, na |-> rd.st.na]

\* lines 331-338: rh is what star_read_fheaders returned
read_fheaders_done(rh, failAt, zeroNull) ==
    IF rh.f.nfiles # rh.ret
    THEN [ret |-> ZeroFile, h |-> ko_fheaders(rh.st.h, rh.f, rh.ret), na |-> rh.st.na]
    ELSE read_fdata_done(star_read_fdata(rh.st, rh.f, failAt, zeroNull), rh.ret)

star_read(h, in, failAt, zeroNull) ==
    LET hd == star_read_header(in)
        a == ralloc([h |-> h, in |-> hd.rest, na |-> 0], SizeofFile, failAt, zeroNull)
    IN  IF ~hd.ret THEN [ret |-> ZeroFile, h |-> h, na |-> 0]
        ELSE IF a.ptr = NULL THEN [ret |-> ZeroFile, h |-> a.st.h, na |-> a.st.na]
        ELSE read_fheaders_done(
                star_read_fheaders(a.st, [hd.f EXCEPT !.self = a.ptr], failAt, zeroNull),
                failAt, zeroNull)

(***************************************************************************)
(* star_search and star_bsearch.  A lookup that would dereference a NULL   *)
(* path reports segv.                                                      *)
(***************************************************************************)
star_min(x, y) == IF x < y THEN x ELSE y

RECURSIVE search_loop_last(_, _, _, _)
\* search_loop that does not stop at the first match
search_loop_last(h, f, fname, ret) ==
    IF ret >= f.nfiles THEN [match |-> FALSE, ret |-> ret, segv |-> FALSE]
    ELSE
    LET fl == strlen(fname \o <<0>>, <<>>)
        n == f.fh[ret + 1].path_len - 1
        further == search_loop_last(h, f, fname, ret + 1)
    IN  IF n # fl THEN further
        ELSE IF f.fh[ret + 1].path = NULL /\ star_min(fl, n) > 0
        THEN [match |-> FALSE, ret |-> ret, segv |-> TRUE]
        ELSE IF star_min(fl, n) = 0
                \/ strncmp(fname \o <<0>>, h.mem[f.fh[ret + 1].path], star_min(fl, n)) = 0
        THEN (IF further.match THEN further ELSE [match |-> TRUE, ret |-> ret, segv |-> FALSE])
        ELSE further

RECURSIVE search_loop(_, _, _, _)
\* the loop of lines 557-569, from entry ret (0-based) on
search_loop(h, f, fname, ret) ==
    IF ret >= f.nfiles THEN [match |-> FALSE, ret |-> ret, segv |-> FALSE]
    ELSE
    LET fl == strlen(fname \o <<0>>, <<>>)
        n == f.fh[ret + 1].path_len - 1
    IN  IF n # fl THEN search_loop(h, f, fname, ret + 1)
        ELSE IF f.fh[ret + 1].path = NULL /\ star_min(fl, n) > 0
        THEN [match |-> FALSE, ret |-> ret, segv |-> TRUE]
        ELSE IF star_min(fl, n) = 0
                \/ strncmp(fname \o <<0>>, h.mem[f.fh[ret + 1].path], star_min(fl, n)) = 0
        THEN [match |-> TRUE, ret |-> ret, segv |-> FALSE]
        ELSE search_loop(h, f, fname, ret + 1)

star_search(h, f, nameNull, fname) ==
    IF f.self = NULL \/ f.fheaders = NULL \/ nameNull
    THEN [ret |-> UINT64_MAX, segv |-> FALSE]
    ELSE LET l == search_loop(h, f, fname, 0)
         IN  [ret |-> IF ~l.match THEN UINT64_MAX ELSE l.ret, segv |-> l.segv]

\* _star_compar_path(path, fh) for non-NULL arguments and a non-NULL fh->path
star_compar_path(h, key, e, over) == star_strcmp(key, CStr(h.mem[e.path], over))

RECURSIVE bsearch(_, _, _, _, _, _)
\* the C library's bsearch over the elements base .. base + nel - 1 (0-based),
\* probing the middle element
bsearch(h, key, fh, base, nel, over) ==
    IF nel = 0 THEN [found |-> FALSE, idx |-> 0, segv |-> FALSE]
    ELSE
    LET try == base + (nel \div 2)
        sign == star_compar_path(h, key, fh[try + 1], over)
    IN  IF fh[try + 1].path = NULL THEN [found |-> FALSE, idx |-> 0, segv |-> TRUE]
        ELSE IF sign < 0 THEN bsearch(h, key, fh, base, nel \div 2, over)
        ELSE IF sign > 0 THEN bsearch(h, key, fh, try + 1, nel - ((nel \div 2) + 1), over)
        ELSE [found |-> TRUE, idx |-> try, segv |-> FALSE]

star_bsearch(h, f, nameNull, fname, over) ==
    IF f.self = NULL \/ f.fheaders = NULL \/ nameNull
    THEN [ret |-> UINT64_MAX, segv |-> FALSE]
    ELSE LET match == bsearch(h, fname, f.fh, 0, f.nfiles, over)
         IN  [ret |-> IF match.found THEN match.idx ELSE UINT64_MAX, segv |-> match.segv]

(***************************************************************************)
(* The state: the archive under construction (ar), the archive read back   *)
(* (rd), the heap, the archive file on disk and where its content comes    *)
(* from, and the last call with its outcome.                               *)
(*   last.which the archive a call is made on; for star_add_file, what     *)
(*              goes wrong around the call (AddCases)                      *)
(*   last.res   the index a lookup returns; for star_read, the number of   *)
(*              allocations the call made                                  *)
(*   last.pre   star_add_file: idx is in range, path and stream are given, *)
(*              the stream holds size bytes and no allocation is refused   *)
(*   last.name, last.size   the path and size given to a star_add_file     *)
(*              (kept when the call succeeds or last.pre holds)            *)
(***************************************************************************)
VARIABLES ar, rd, heap, file, filesrc, last

vars == <<ar, rd, heap, file, filesrc, last>>

NoCall ==
    [op |-> "init", which |-> "none", ok |-> FALSE, res |-> 0, segv |-> FALSE,
     idx |-> 0, nul |-> FALSE, name |-> <<>>, size |-> 0, pre |-> FALSE,
     allocFail |-> FALSE, ioFail |-> FALSE, whole |-> FALSE]

\* a zero-initialised struct star_file that lives outside the heap
TmpFile == [ZeroFile EXCEPT !.self = -1]

Target(which) ==
    CASE which = "ar" -> ar
      [] which = "rd" -> rd
      [] which = "tmp" -> TmpFile
      [] OTHER -> ZeroFile

Leaked == (DOMAIN heap.mem) \ (Owned(ar) \cup Owned(rd))

\* the archive is still being built: nothing has been written or read
Building == filesrc = "none" /\ rd.self = NULL

Init ==
    /\ ar = ZeroFile
    /\ rd = ZeroFile
    /\ heap = EmptyHeap
    /\ file = <<>>
    /\ filesrc = "none"
    /\ last = NoCall

(***************************************************************************)
(* A foreign archive file handed to the program: any header, any entries,  *)
(* among them entries no writer produces (no terminator, a NUL inside the  *)
(* path, an empty path buffer, no data).                                   *)
(***************************************************************************)
StreamPaths == {<<>>, <<97>>, <<97, 0>>, <<97, 0, 0>>}
LookupPaths == StreamPaths \cup {<<98, 0>>}
StreamMagics == {MAGIC, <<83, 84, 65, 83>>}

StreamOf(magic, es) ==
    magic \o u64_bytes(Len(es), SizeofU64)
      \o Concat([i \in 1..Len(es) |->
            u64_bytes(es[i].size, SizeofU64) \o u64_bytes(0, SizeofU64)
              \o u64_bytes(Len(es[i].path), SizeofU64) \o es[i].path])
      \o Concat([i \in 1..Len(es) |-> Source(es[i].size)])

Supply(paths, sizes) ==
    /\ last.op = "init"
    /\ \E magic \in StreamMagics :
         \E n \in (IF magic = MAGIC THEN 0..MaxFiles ELSE {0}) :
            \E es \in [1..n -> [path : paths, size : sizes]] :
                file' = StreamOf(magic, es)
    /\ filesrc' = "env"
    /\ last' = [NoCall EXCEPT !.op = "supply"]
    /\ UNCHANGED <<ar, rd, heap>>

(***************************************************************************)
(* The calls.  The parameters of an action name the inputs a specification *)
(* draws for it.                                                           *)
(***************************************************************************)
\* a call that failed left the state as it was: making the same kind of call
\* right after it reaches nothing that was not reached before it
Retry(op) == last.op = op => last.ok

New ==
    /\ Building /\ ar.self = NULL
    /\ \E nfiles \in 0..MaxFiles, failAt \in 0..3 :
         LET r == star_new(heap, nfiles, failAt)
         IN  /\ ar' = r.ret
             /\ heap' = r.h
             /\ last' = [NoCall EXCEPT !.op = "new", !.ok = r.ret.self # NULL]
    /\ UNCHANGED <<rd, file, filesrc>>

\* what goes wrong around a star_add_file, if anything
AddCases == {"none", "short", "nullpath", "nullin", "alloc1", "alloc2", "zeronull"}

AddFile(names, sizes, cases, overwrite) ==
    /\ Building
    /\ Retry("add_file")
    /\ ar.self # NULL => ar.fh[1].offset = 0
    /\ \E idx \in 0..MaxFiles, case \in cases :
       \E path \in (IF case \in {"none", "zeronull"} THEN names ELSE {<<97>>}) :
       \E size \in (IF case \in {"none", "short"} THEN sizes
                    ELSE IF case = "zeronull" THEN {0} ELSE {1}) :
       \E avail \in (IF case = "short" THEN 0..(size - 1)
                     ELSE IF case = "none" THEN {size, MaxSize} ELSE {size}) :
         LET failAt == IF case = "alloc1" THEN 1 ELSE IF case = "alloc2" THEN 2 ELSE 0
             zeroNull == case = "zeronull"
             r == star_add_file(heap, ar, idx, case = "nullpath", path, size,
                                case = "nullin", Source(avail), failAt, zeroNull)
             pre == /\ ar.self # NULL /\ idx < ar.nfiles
                    /\ case \in {"none", "zeronull"}
                    /\ ~(zeroNull /\ size = 0)
         IN  /\ (r.ret /\ ar.fd[idx + 1] # NULL) => (overwrite /\ Cardinality(Leaked) < MaxLeak)
             /\ ar' = r.f
             /\ heap' = r.h
             /\ last' = [NoCall EXCEPT !.op = "add_file", !.ok = r.ret, !.pre = pre,
                            !.which = case,
                            !.idx = IF r.ret \/ pre THEN idx ELSE 0,
                            !.name = IF r.ret \/ pre THEN path ELSE <<>>,
                            !.size = IF r.ret \/ pre THEN size ELSE 0]
    /\ UNCHANGED <<rd, file, filesrc>>

FileOffsets ==
    /\ Building
    /\ ar.self # NULL
    /\ LET r == star_file_offsets(ar)
       IN  /\ ar' = r.f
           /\ last' = [NoCall EXCEPT !.op = "file_offsets", !.ok = r.ret]
    /\ UNCHANGED <<rd, heap, file, filesrc>>

\* calls on no archive or on a zeroed struct do not depend on the state: they
\* are made before anything else
Callable(which) == which \in {"tmp", "null"} => (ar.self = NULL /\ rd.self = NULL /\ filesrc = "none")

\* inject: the first or the last fwrite of the call may fail
Write(targets, overs, inject) ==
    /\ \E which \in targets, over \in overs :
       \E outNull \in (IF which = "null" THEN BOOLEAN ELSE {FALSE}) :
       \E failAt \in (IF inject THEN {0, 1, 1 + NFields * Target(which).nfiles} ELSE {0}) :
         LET r == star_write(heap, Target(which), outNull, failAt, over)
         IN  /\ Callable(which)
             /\ file' = r.out
             /\ filesrc' = IF r.ret THEN which ELSE IF r.short THEN "part" ELSE "none"
             /\ last' = [NoCall EXCEPT !.op = "write", !.which = which, !.ok = r.ret,
                            !.ioFail = r.short]
    /\ UNCHANGED <<ar, rd, heap>>

\* cuts: the stream may end at any byte; allocs: any allocation of the call
\* may fail; zeroNulls: what malloc(0) may do
Read(cuts, allocs, zeroNulls) ==
    /\ rd.self = NULL
    /\ filesrc # "none"
    /\ Retry("read")
    /\ \E cut \in (IF cuts /\ filesrc # "part" THEN 0..Len(file) ELSE {Len(file)}) :
       \E failAt \in (IF allocs /\ cut = Len(file) /\ filesrc # "part"
                      THEN 0..(3 + 2 * MaxFiles) ELSE {0}) :
       \E zeroNull \in (IF cut = Len(file) /\ failAt = 0 THEN zeroNulls ELSE {FALSE}) :
       \E r \in {star_read(heap, Take(file, cut), failAt, zeroNull)} :
             /\ rd' = r.ret
             /\ heap' = r.h
             /\ last' = [NoCall EXCEPT !.op = "read", !.ok = r.ret.self # NULL,
                            !.whole = cut = Len(file), !.res = r.na,
                            !.allocFail = failAt \in 1..r.na]
    /\ UNCHANGED <<ar, file, filesrc>>

Search(targets) ==
    /\ \E which \in targets, nameNull \in BOOLEAN :
       \E name \in (IF nameNull THEN {<<>>} ELSE Names) :
         LET r == star_search(heap, Target(which), nameNull, name)
         IN  Callable(which) /\ last' = [NoCall EXCEPT !.op = "search", !.which = which, !.nul = nameNull,
                         !.name = name, !.res = r.ret, !.segv = r.segv]
    /\ UNCHANGED <<ar, rd, heap, file, filesrc>>

BSearch(targets) ==
    /\ \E which \in targets, nameNull \in BOOLEAN, over \in Overruns :
       \E name \in (IF nameNull THEN {<<>>} ELSE Names) :
         LET r == star_bsearch(heap, Target(which), nameNull, name, over)
         IN  Callable(which) /\ last' = [NoCall EXCEPT !.op = "bsearch", !.which = which, !.nul = nameNull,
                         !.name = name, !.res = r.ret, !.segv = r.segv]
    /\ UNCHANGED <<ar, rd, heap, file, filesrc>>

Free ==
    /\ \E which \in {"ar", "rd"} :
         /\ Target(which).self = NULL => last.op = "init"
         /\ heap' = star_free(heap, Target(which))
         /\ ar' = IF which = "ar" THEN ZeroFile ELSE ar
         /\ rd' = IF which = "rd" THEN ZeroFile ELSE rd
         /\ last' = [NoCall EXCEPT !.op = "free", !.which = which]
    /\ UNCHANGED <<file, filesrc>>

(***************************************************************************)
(* Spec: an archive is built, written, read back and torn down, with every *)
(* failure the calls can meet.                                             *)
(***************************************************************************)
Next ==
    \/ New
    \/ AddFile(BuildNames, {0, 1, MaxSize}, AddCases, FALSE)
    \/ FileOffsets
    \/ Write({"ar", "tmp", "null"}, {<<>>}, TRUE)
    \/ Read(FALSE, TRUE, {FALSE})
    \/ Free

Spec == Init /\ [][Next]_vars

(***************************************************************************)
(* SpecRead: a foreign archive file is read, with every failure the read   *)
(* can meet; archives, read or under construction, are written.            *)
(***************************************************************************)
NextRead ==
    \/ Supply(StreamPaths, 0..1)
    \/ New
    \/ AddFile(BuildNames, {1}, {"none"}, FALSE)
    \/ Read(TRUE, TRUE, BOOLEAN)
    \/ Write({"ar", "rd", "tmp", "null"}, Overruns, FALSE)
    \/ Free

SpecRead == Init /\ [][NextRead]_vars

(***************************************************************************)
(* SpecLookup: names are looked up in archives under construction and in   *)
(* archives read from a foreign file.                                      *)
(***************************************************************************)
NextLookup ==
    \/ New
    \/ AddFile(Names, {1}, {"none"}, FALSE)
    \/ Supply(LookupPaths, {1})
    \/ Read(FALSE, FALSE, BOOLEAN)
    \/ Search({"ar", "rd", "tmp", "null"})
    \/ BSearch({"ar", "rd", "tmp", "null"})

SpecLookup == Init /\ [][NextLookup]_vars

(***************************************************************************)
(* SpecOwn: slots are filled, filled again and the archive is torn down.   *)
(***************************************************************************)
NextOwn ==
    \/ New
    \/ AddFile(BuildNames, 1..MaxSize, AddCases, TRUE)
    \/ Free

SpecOwn == Init /\ [][NextOwn]_vars

(***************************************************************************)
(* Properties.                                                             *)
(***************************************************************************)
\* every slot of the archive holds a path and a data buffer
Complete(f) ==
    /\ f.self # NULL /\ f.fheaders # NULL /\ f.fdata # NULL
    /\ \A i \in 1..f.nfiles : f.fd[i] # NULL /\ f.fh[i].path # NULL

\* every path buffer has path_len bytes, the last of which is the terminator
Terminated(f) ==
    \A i \in 1..f.nfiles :
        LET buf == heap.mem[f.fh[i].path]
        IN  Len(buf) = f.fh[i].path_len /\ Len(buf) >= 1 /\ buf[Len(buf)] = 0

\* the entries are in the order of the length-first comparator
Sorted(f) ==
    \A i, j \in 1..f.nfiles :
        i < j => star_strcmp(CStr(heap.mem[f.fh[i].path], <<>>),
                             CStr(heap.mem[f.fh[j].path], <<>>)) <= 0

\* entry i (1-based) is stored under the name: path_len - 1 bytes, the same bytes
Matches(f, i, name) ==
    /\ f.fh[i].path # NULL
    /\ f.fh[i].path_len - 1 = Len(name)
    /\ SubSeq(heap.mem[f.fh[i].path], 1, Len(name)) = name

\* the smallest matching index (0-based), or the sentinel
FirstMatch(f, nameNull, name) ==
    IF f.self = NULL \/ f.fheaders = NULL \/ nameNull THEN UINT64_MAX
    ELSE LET M == {i \in 1..f.nfiles : Matches(f, i, name)}
         IN  IF M = {} THEN UINT64_MAX ELSE (CHOOSE i \in M : \A j \in M : i <= j) - 1

SameArchive(a, b) ==
    /\ a.magic = b.magic
    /\ a.nfiles = b.nfiles
    /\ \A i \in 1..a.nfiles :
        /\ a.fh[i].size = b.fh[i].size
        /\ a.fh[i].offset = b.fh[i].offset
        /\ a.fh[i].path_len = b.fh[i].path_len
        /\ b.fh[i].path # NULL /\ b.fd[i] # NULL
        /\ heap.mem[a.fh[i].path] = heap.mem[b.fh[i].path]
        /\ heap.mem[a.fd[i]] = heap.mem[b.fd[i]]

\* C1: an archive whose every slot was filled is written when no fwrite
\* fails, and reading the whole written stream, when no allocation fails,
\* returns an archive with the same magic, file count, sizes, offsets, path
\* lengths, path bytes and data bytes
C1_RoundTrip ==
    /\ (last.op = "write" /\ last.which = "ar" /\ Complete(ar) /\ ~last.ioFail)
          => (last.ok /\ filesrc = "ar")
    /\ (last.op = "read" /\ filesrc = "ar" /\ ar.self # NULL /\ last.whole /\ ~last.allocFail)
          => (rd.self # NULL /\ SameArchive(ar, rd))

C1_Witness ==
    /\ last.op = "read" /\ last.ok /\ filesrc = "ar" /\ ar.self # NULL
    /\ ar.nfiles >= 2
    /\ ar.fh[1].offset > 0
    /\ ar.fh[1].size # ar.fh[2].size
    /\ ar.fh[1].path_len # ar.fh[2].path_len
    /\ SameArchive(ar, rd)

\* the archive owns a path of path_len bytes and a data buffer of size bytes
\* for every entry, each in a block of its own
Populated(f, h) ==
    /\ \A i \in 1..f.nfiles :
        /\ f.fh[i].path \in DOMAIN h.mem
        /\ Len(h.mem[f.fh[i].path]) = f.fh[i].path_len
        /\ f.fd[i] \in DOMAIN h.mem
        /\ Len(h.mem[f.fd[i]]) = f.fh[i].size
    /\ Cardinality(Owned(f)) =
          Cardinality({f.self, f.fheaders, f.fdata} \ {NULL}) + 2 * f.nfiles

\* C2: star_read returns an archive whose every entry has its path and its
\* data, all in blocks allocated by the call, or it returns no archive and
\* leaves the heap as it found it (every block of the call freed, none
\* twice); a stream that ends early yields no archive
C2_ReadAllOrNothing ==
    [][last'.op = "read" =>
        /\ heap'.bad = heap.bad
        /\ IF rd'.self = NULL
           THEN heap'.mem = heap.mem
           ELSE /\ Populated(rd', heap')
                /\ Owned(rd') \cap DOMAIN heap.mem = {}
                /\ DOMAIN heap'.mem = DOMAIN heap.mem \cup Owned(rd')
                /\ \A q \in DOMAIN heap.mem : heap'.mem[q] = heap.mem[q]
        /\ ~last'.whole => rd'.self = NULL]_vars

\* a stream cut inside the data block: the struct, both arrays, two paths and
\* a data buffer had been allocated
C2_Witness ==
    /\ last.op = "read" /\ ~last.ok /\ ~last.whole
    /\ last.res >= 6
    /\ rd.self = NULL
    /\ heap.mem = <<>>

\* what star_write refuses: no archive, a wrong magic, a missing array, an
\* empty slot, a path_len that is not the length of the path plus one
Refused(f) ==
    \/ f.self = NULL
    \/ f.magic # MAGIC
    \/ f.fheaders = NULL
    \/ f.fdata = NULL
    \/ \E i \in 1..f.nfiles :
        \/ f.fd[i] = NULL
        \/ f.fh[i].path = NULL
        \/ LET buf == heap.mem[f.fh[i].path]
           IN  IF HasNul(buf) THEN f.fh[i].path_len # FirstNul(buf)
               ELSE f.fh[i].path_len <= Len(buf)

\* C3: star_write on an archive it refuses reports failure and has written
\* no byte
C3_WriteValidates ==
    (last.op = "write" /\ Refused(Target(last.which)))
        => (~last.ok /\ file = <<>> /\ ~last.ioFail)

\* an archive under construction with a filled and an empty slot is refused
C3_Witness ==
    /\ last.op = "write" /\ last.which = "ar" /\ ~last.ok /\ file = <<>>
    /\ ar.self # NULL
    /\ \E i, j \in 1..ar.nfiles : ar.fd[i] = NULL /\ ar.fd[j] # NULL

\* C4: a star_add_file that fails leaves the archive and the heap as they were
C4_AddFileAtomic ==
    [][(last'.op = "add_file" /\ ~last'.ok) => (ar' = ar /\ heap' = heap)]_vars

\* strdup fails on a slot of an archive, after the data buffer was filled
C4_Witness ==
    /\ last.op = "add_file" /\ ~last.ok /\ last.which = "alloc2"
    /\ ar.self # NULL
    /\ \E i \in 1..ar.nfiles : ar.fd[i] # NULL

\* C5: star_add_file with idx in range, a path, a stream that holds size
\* bytes and no refused allocation succeeds and fills slot idx with the
\* path, its length plus one, the size and the next size bytes of the stream
C5_AddFileSucceeds ==
    (last.op = "add_file" /\ last.pre) =>
        /\ last.ok
        /\ ar.fh[last.idx + 1].size = last.size
        /\ ar.fh[last.idx + 1].path_len = Len(last.name) + 1
        /\ heap.mem[ar.fh[last.idx + 1].path] = last.name \o <<0>>
        /\ heap.mem[ar.fd[last.idx + 1]] = Source(last.size)

RECURSIVE SeqSum(_)
SeqSum(xs) == IF xs = <<>> THEN 0 ELSE Head(xs) + SeqSum(Tail(xs))

\* the number of bytes star_write has emitted when it writes the first data
\* byte of entry i (1-based): the header, 2 * nfiles metadata chunks and the
\* data of the entries before i
DataPos(h, f, i) ==
    LET cs == WriteChunks(h, f)
    IN  SeqSum([k \in 1..(2 * f.nfiles + i) |-> Len(cs[k].bytes)])

\* C6: star_file_offsets sets offset[0] to the header size plus 24 bytes and
\* path_len bytes per entry, offset[i] to offset[i-1] + size[i-1]; on a
\* complete archive offset[i] is where star_write puts the data of entry i;
\* nothing but the offsets changes
C6_Offsets ==
    [][last'.op = "file_offsets" =>
        /\ last'.ok
        /\ ar'.fh[1].offset =
              Len(HeaderChunk(ar').bytes) + ar'.nfiles * 24
                + SeqSum([i \in 1..ar'.nfiles |-> ar'.fh[i].path_len])
        /\ \A i \in 2..ar'.nfiles :
              ar'.fh[i].offset = ar'.fh[i - 1].offset + ar'.fh[i - 1].size
        /\ Complete(ar') =>
              \A i \in 1..ar'.nfiles : ar'.fh[i].offset = DataPos(heap', ar', i)
        /\ heap' = heap
        /\ ar' = [ar EXCEPT !.fh = [i \in 1..ar.nfiles |->
                        [ar.fh[i] EXCEPT !.offset = ar'.fh[i].offset]]]]_vars

C6_Witness ==
    /\ last.op = "file_offsets" /\ last.ok
    /\ Complete(ar)
    /\ ar.nfiles >= 2
    /\ ar.fh[1].size # ar.fh[2].size
    /\ ar.fh[2].offset = ar.fh[1].offset + ar.fh[1].size

\* C7: star_search returns the smallest index whose path has path_len - 1
\* bytes before the terminator and the bytes of the name, the sentinel when
\* there is none or when the archive, the metadata or the name is missing,
\* and never touches the path of an empty slot
C7_Search ==
    last.op = "search" =>
        /\ ~last.segv
        /\ last.res = FirstMatch(Target(last.which), last.nul, last.name)

\* two entries under the same path, the first is returned
C7_Witness ==
    /\ last.op = "search" /\ last.which = "ar" /\ ~last.nul
    /\ ar.nfiles >= 2
    /\ Matches(ar, 1, last.name) /\ Matches(ar, 2, last.name)
    /\ last.res = 0

\* C8: on a complete archive sorted by the length-first comparator
\* star_bsearch returns the sentinel exactly when star_search does, and
\* otherwise the index of an entry stored under the name
C8_BSearchAgrees ==
    LET f == Target(last.which)
    IN  (/\ last.op = "bsearch" /\ last.which \in {"ar", "rd"} /\ ~last.nul
         /\ Complete(f) /\ Terminated(f) /\ Sorted(f))
        => /\ ~last.segv
           /\ (last.res = UINT64_MAX) <=> (star_search(heap, f, FALSE, last.name).ret = UINT64_MAX)
           /\ last.res # UINT64_MAX => Matches(f, last.res + 1, last.name)

\* where the path of entry i (1-based) starts in a stream with the path
\* lengths of f
PathPos(f, i) ==
    SizeofHeader + SeqSum([k \in 1..(i - 1) |-> 24 + f.fh[k].path_len]) + 24

\* C9: star_add_file puts the entry in the slot it is given and moves no
\* other entry, star_read keeps the entries in the order of the stream: no
\* call sorts the entries
C9_NoReorder ==
    [][/\ (last'.op = "add_file" /\ last'.ok) =>
            /\ ar'.fh[last'.idx + 1].path \in DOMAIN heap'.mem
            /\ heap'.mem[ar'.fh[last'.idx + 1].path] = last'.name \o <<0>>
            /\ \A j \in 1..ar.nfiles :
                  j # last'.idx + 1 => (ar'.fh[j] = ar.fh[j] /\ ar'.fd[j] = ar.fd[j])
       /\ (last'.op = "read" /\ last'.ok) =>
            \A i \in 1..rd'.nfiles :
                heap'.mem[rd'.fh[i].path] =
                    SubSeq(file, PathPos(rd', i) + 1, PathPos(rd', i) + rd'.fh[i].path_len)]_vars

\* a complete archive that is not sorted: star_search finds the name,
\* star_bsearch returns something else
C9_Witness ==
    /\ last.op = "bsearch" /\ last.which = "ar" /\ ~last.nul /\ ~last.segv
    /\ Complete(ar) /\ ~Sorted(ar)
    /\ star_search(heap, ar, FALSE, last.name).ret # UINT64_MAX
    /\ last.res # star_search(heap, ar, FALSE, last.name).ret

\* C10: every block is owned by an archive and no block is freed twice
C10_ExactlyOnce == Leaked = {} /\ ~heap.bad

====
